---- MODULE Spec2Model ----
(***************************************************************************)
(* Olive tool server: the tool registry (olive/registry.py) and the        *)
(* invocation dispatcher call_tool (olive/router.py), with the pydantic    *)
(* models of olive/schemas.py that both of them build.                     *)
(*                                                                         *)
(* SpecRegistry: threads calling register / get / list_all / clear on one  *)
(*               ToolRegistry, one lock-protected statement per step.      *)
(* SpecCall:     tools are registered by the olive_tool decorator and one  *)
(*               POST /tools/call request is served by call_tool.          *)
(* SpecClient:   OliveClient's tool builders and call_tool.                *)
(* SpecWorker:   TemporalWorker's background thread, started and stopped.  *)
(* SpecDurable:  execute_tool / start_tool and the workflows they start.   *)
(* SpecApp:      the application's lifespan around imports and requests.   *)
(* SpecSchema:   extract_schema_from_function on one function.             *)
(* SpecLocking:  call_tool's registry lookup next to registry threads.     *)
(* SpecActivities: registrations next to a starting worker.                *)
(* SpecPool:     direct calls of blocking tools on the default executor.   *)
(***************************************************************************)
EXTENDS Integers, Sequences, FiniteSets, TLC

(***************************************************************************)
(* Bounds                                                                  *)
(***************************************************************************)
NumThreads == 3

Threads == 1..NumThreads

NoThread == 0

RegNames == {"a", "b"}

VARIABLES
    tools,      \* ToolRegistry._tools: insertion-ordered dict, a sequence of descriptors with distinct names
    lock,       \* ToolRegistry._lock: the thread holding it, or NoThread
    tpc,        \* per thread: position inside its registry operation
    top,        \* per thread: the operation it called and its argument
    tres,       \* per thread: how its operation ended
    snap,       \* per thread: the object list_all returned to it
    appWorker,      \* app.state.temporal_worker as getattr(..., None) reads it
    fallbackWorker, \* router._temporal_worker_fallback
    cpc,            \* position of the request inside call_tool
    req,            \* tool_request: tool_name, arguments, context
    tool_info,      \* call_tool's local tool_info
    final_args,     \* call_tool's local final_args
    raised,         \* the exception propagating inside call_tool, if any
    response,       \* the ToolCallResponse call_tool returned
    timerFired,     \* the wait_for deadline has expired
    invoked,        \* number of times the tool's callable was started
    submitted,      \* number of workflows handed to the durable worker
    bg,             \* executor thread still running a callable whose caller timed out
    callEnd,        \* how the callable's own execution ended, if it has
    declared,           \* the olive_tool(...) calls made so far: tool name and fire_and_forget argument
    elevenlabs_context, \* OliveClient._elevenlabs_context
    clientCall,         \* the last OliveClient operation: how it was reached, the context it was given
    payload,            \* the JSON body that operation posted to /olive/tools/call, if it posted
    clientOut,          \* how that operation ended
    config,             \* the config object handed to create_app / TemporalWorker
    wclient,            \* TemporalWorker._client
    wthreads,           \* the Thread objects start_background created, each with its position in _run_worker
    worker_thread,      \* TemporalWorker._worker_thread: index into wthreads, or 0 for None
    async_stop_event,   \* TemporalWorker._async_stop_event: None, or the Event of the thread that made it
    stop_requested,     \* TemporalWorker._stop_requested
    starts,             \* number of start_background calls made
    stop_calls,         \* number of stop calls made
    stop_pc,            \* position of the running stop call
    joined,             \* how the last join(timeout=5) ended
    uuids,              \* number of uuid4() values drawn so far
    invocations,        \* the execute_tool / start_tool calls made on the worker, with their workflows
    startup,            \* where the application's lifespan is
    startupError,       \* the exception that ended the lifespan's startup, if any
    connection,         \* whether the startup's connection attempt succeeded, if one was made
    func,               \* the function handed to extract_schema_from_function, if one was
    extracted,          \* what extract_schema_from_function returned for it, if it has
    activities,         \* the activity names each worker thread handed to its Worker
    calls               \* the direct calls of blocking tools made so far, each with its work item

regVars == <<tools, lock, tpc, top, tres, snap>>

callVars == <<appWorker, fallbackWorker, cpc, req, tool_info, final_args, raised, response,
              timerFired, invoked, submitted, bg, callEnd>>

clientVars == <<elevenlabs_context, clientCall, payload, clientOut>>

\* the variables of the components outside the registry and the dispatcher
workerVars == <<config, wclient, wthreads, worker_thread, async_stop_event, stop_requested,
                starts, stop_calls, stop_pc, joined>>

durableVars == <<uuids, invocations>>

appVars == <<startup, startupError, connection>>

schemaVars == <<func, extracted>>

otherExtVars == <<clientVars, workerVars, durableVars, appVars, schemaVars, activities, calls>>

extVars == <<declared, otherExtVars>>

vars == <<tools, lock, tpc, top, tres, snap, appWorker, fallbackWorker, cpc, req, tool_info,
          final_args, raised, response, timerFired, invoked, submitted, bg, callEnd, extVars>>

(***************************************************************************)
(* Python values                                                           *)
(***************************************************************************)
PyNone == [type |-> "NoneType"]

Val(t, s) == [type |-> t, s |-> s]

\* an f-string: its fixed text and the values formatted into it
Fmt(text, parts) == [type |-> "str", s |-> text, parts |-> parts]

Str(s) == Fmt(s, <<>>)

Mentions(msg, x) == msg # PyNone /\ \E i \in 1..Len(msg.parts) : msg.parts[i] = x

NoReq == [tool_name |-> "-"]

NoExc == [cls |-> "none"]

NoResponse == [none |-> TRUE]

EmptyDict == <<>>

NoEnd == [kind |-> "none"]

\* BaseModel(**kwargs): each declared field takes its keyword's value or its
\* default; a keyword naming no declared field is ignored (pydantic's default
\* extra="ignore"), and reading such an attribute later raises AttributeError.
Model(defaults, kwargs) ==
    [f \in DOMAIN defaults |-> IF f \in DOMAIN kwargs THEN kwargs[f] ELSE defaults[f]]

HasAttr(obj, a) == a \in DOMAIN obj

(***************************************************************************)
(* ToolRegistry (olive/registry.py)                                        *)
(***************************************************************************)
DictNames(d) == {d[i].name : i \in 1..Len(d)}

DictHas(d, n) == n \in DictNames(d)

DictGet(d, n) == IF DictHas(d, n) THEN (CHOOSE x \in {d[i] : i \in 1..Len(d)} : x.name = n) ELSE PyNone

DictSetLosing(d, x) == <<x>>

\* d[key] = value: a new key is appended, an existing key keeps its position
DictSet(d, x) ==
    IF DictHas(d, x.name) THEN [i \in 1..Len(d) |-> IF d[i].name = x.name THEN x ELSE d[i]]
    ELSE Append(d, x)

\* dict.values() is a live view of the dict; list(view) copies it
ValuesView == [kind |-> "view", items |-> <<>>]

ListOf(d) == [kind |-> "list", items |-> d]

\* what a reader of the object sees when the dict currently holds d
ContentsIn(obj, d) == IF obj.kind = "view" THEN d ELSE obj.items

NoSnap == [kind |-> "none", items |-> <<>>]

RegOps ==
    [kind : {"register", "get"}, name : RegNames] \cup [kind : {"list_all", "clear"}, name : {"-"}]

NoOp == [kind |-> "none", name |-> "-"]

\* the descriptor thread t passes to register: a fresh ToolInfo object of its own
DescOf(t) == [name |-> top[t].name, id |-> t]

LockFreeNoMutex == TRUE

\* threading.Lock: acquire blocks while another thread holds the lock
LockFree == lock = NoThread

ListAllViewResult(d) == ValuesView

ListAllResult(d) == ListOf(d)

InitRegistryVars ==
    /\ tools = <<>>
    /\ lock = NoThread
    /\ tpc = [t \in Threads |-> "idle"]
    /\ top = [t \in Threads |-> NoOp]
    /\ tres = [t \in Threads |-> "none"]
    /\ snap = [t \in Threads |-> NoSnap]

InitCallVars ==
    /\ appWorker = PyNone
    /\ fallbackWorker = PyNone
    /\ cpc = "idle"
    /\ req = NoReq
    /\ tool_info = PyNone
    /\ final_args = EmptyDict
    /\ raised = NoExc
    /\ response = NoResponse
    /\ timerFired = FALSE
    /\ invoked = 0
    /\ submitted = 0
    /\ bg = "none"
    /\ callEnd = NoEnd

NoPayload == [none |-> TRUE]

NoClientCall == [via |-> "none"]

InitClientVars ==
    /\ elevenlabs_context = PyNone
    /\ clientCall = NoClientCall
    /\ payload = NoPayload
    /\ clientOut = NoEnd

(***************************************************************************)
(* Configuration objects (olive/config.py)                                 *)
(***************************************************************************)
\* class TemporalConfig: the declared fields; like every BaseModel it ignores
\* keywords it does not declare (enabled, namespace_endpoint)
TemporalConfig(kwargs) ==
    Model([address |-> Str("localhost:7233"), namespace |-> Str("default"),
           task_queue |-> Str("olive-tools"), cloud_namespace |-> PyNone,
           cloud_api_key |-> PyNone, client_cert_path |-> PyNone,
           client_key_path |-> PyNone, server_root_ca_path |-> PyNone,
           server_name |-> PyNone], kwargs)

\* OliveConfig(temporal=TemporalConfig(**kwargs))
OliveConfig(kwargs) == [temporal |-> TemporalConfig(kwargs)]

\* a config object of the application's own whose temporal section also
\* carries the two attributes lifespan and _get_client read, and the
\* operator's choice between mandatory and best-effort, which nothing reads
SuppliedConfig(enabled, mandatory) ==
    [temporal |-> [enabled |-> enabled, namespace_endpoint |-> PyNone, mandatory |-> mandatory]
                      @@ TemporalConfig(<<>>)]

\* the config objects an application is created with
Configs ==
    {OliveConfig([enabled |-> e]) : e \in BOOLEAN}
        \cup {SuppliedConfig(FALSE, FALSE), SuppliedConfig(TRUE, FALSE), SuppliedConfig(TRUE, TRUE)}

\* the config objects a TemporalWorker is constructed with
WorkerConfigs == {OliveConfig(<<>>), SuppliedConfig(TRUE, TRUE)}

NoJoin == "none"

\* TemporalWorker.__init__
InitWorkerVars ==
    /\ wclient = PyNone
    /\ wthreads = <<>>
    /\ worker_thread = 0
    /\ async_stop_event = PyNone
    /\ stop_requested = FALSE
    /\ starts = 0
    /\ stop_calls = 0
    /\ stop_pc = "idle"
    /\ joined = NoJoin

\* everything outside the registry and the dispatcher, for a given config object
InitExtWith(cfg) ==
    /\ declared = {}
    /\ InitClientVars
    /\ InitWorkerVars
    /\ config = cfg
    /\ uuids = 0
    /\ invocations = <<>>
    /\ startup = "init"
    /\ startupError = NoExc
    /\ connection = "none"
    /\ func = PyNone
    /\ extracted = PyNone
    /\ activities = {}
    /\ calls = <<>>

InitExtVars == InitExtWith(OliveConfig(<<>>))

InitRegistry == InitRegistryVars /\ InitCallVars /\ InitExtVars

\* a thread calls one registry method
RegCall(t) ==
    /\ tpc[t] = "idle"
    /\ \E op \in RegOps : top' = [top EXCEPT ![t] = op]
    /\ tpc' = [tpc EXCEPT ![t] = "acquire"]
    /\ UNCHANGED <<tools, lock, tres, snap>>
    /\ UNCHANGED callVars
    /\ UNCHANGED extVars

\* with self._lock: (entry)
Acquire(t) ==
    /\ tpc[t] = "acquire"
    /\ LockFree
    /\ lock' = t
    /\ tpc' = [tpc EXCEPT ![t] = IF top[t].kind = "register" THEN "check" ELSE "body"]
    /\ UNCHANGED <<tools, top, tres, snap>>
    /\ UNCHANGED callVars
    /\ UNCHANGED extVars

\* if tool_info.name in self._tools:
RegisterCheck(t) ==
    /\ tpc[t] = "check"
    /\ tpc' = [tpc EXCEPT ![t] = IF DictHas(tools, top[t].name) THEN "raise" ELSE "insert"]
    /\ UNCHANGED <<tools, lock, top, tres, snap>>
    /\ UNCHANGED callVars
    /\ UNCHANGED extVars

\* raise ValueError(...); the with block releases the lock
RegisterRaise(t) ==
    /\ tpc[t] = "raise"
    /\ tres' = [tres EXCEPT ![t] = "duplicate"]
    /\ lock' = NoThread
    /\ tpc' = [tpc EXCEPT ![t] = "done"]
    /\ UNCHANGED <<tools, top, snap>>
    /\ UNCHANGED callVars
    /\ UNCHANGED extVars

\* self._tools[tool_info.name] = tool_info; the with block releases the lock
RegisterInsert(t) ==
    /\ tpc[t] = "insert"
    /\ tools' = DictSet(tools, DescOf(t))
    /\ tres' = [tres EXCEPT ![t] = "ok"]
    /\ lock' = NoThread
    /\ tpc' = [tpc EXCEPT ![t] = "done"]
    /\ UNCHANGED <<top, snap>>
    /\ UNCHANGED callVars
    /\ UNCHANGED extVars

\* return self._tools.get(name)
GetBody(t) ==
    /\ tpc[t] = "body" /\ top[t].kind = "get"
    /\ tres' = [tres EXCEPT ![t] = IF DictHas(tools, top[t].name) THEN "found" ELSE "absent"]
    /\ lock' = NoThread
    /\ tpc' = [tpc EXCEPT ![t] = "done"]
    /\ UNCHANGED <<tools, top, snap>>
    /\ UNCHANGED callVars
    /\ UNCHANGED extVars

\* return list(self._tools.values())
ListAllBody(t) ==
    /\ tpc[t] = "body" /\ top[t].kind = "list_all"
    /\ snap' = [snap EXCEPT ![t] = ListAllResult(tools)]
    /\ tres' = [tres EXCEPT ![t] = "listed"]
    /\ lock' = NoThread
    /\ tpc' = [tpc EXCEPT ![t] = "done"]
    /\ UNCHANGED <<tools, top>>
    /\ UNCHANGED callVars
    /\ UNCHANGED extVars

\* self._tools.clear()
ClearBody(t) ==
    /\ tpc[t] = "body" /\ top[t].kind = "clear"
    /\ tools' = <<>>
    /\ tres' = [tres EXCEPT ![t] = "cleared"]
    /\ lock' = NoThread
    /\ tpc' = [tpc EXCEPT ![t] = "done"]
    /\ UNCHANGED <<top, snap>>
    /\ UNCHANGED callVars
    /\ UNCHANGED extVars

NextRegistry ==
    \E t \in Threads :
        \/ RegCall(t)
        \/ Acquire(t)
        \/ RegisterCheck(t)
        \/ RegisterRaise(t)
        \/ RegisterInsert(t)
        \/ GetBody(t)
        \/ ListAllBody(t)
        \/ ClearBody(t)

SpecRegistry == InitRegistry /\ [][NextRegistry]_vars

(***************************************************************************)
(* Registry claims                                                         *)
(***************************************************************************)
Registrants(n) == {t \in Threads : top[t].kind = "register" /\ top[t].name = n}

Winners(n) == {t \in Registrants(n) : tres[t] = "ok"}

Losers(n) == {t \in Registrants(n) : tres[t] = "duplicate"}

\* C1: as long as nobody has cleared the registry, for every name at most one
\* register call has succeeded, the winner's descriptor is the one stored under
\* the name, every other finished register call of that name failed with the
\* duplicate error, and once all K callers of the name have returned exactly
\* one has succeeded and K-1 have failed.
C1_ExactlyOneRegistrationWins ==
    (\A t \in Threads : tres[t] # "cleared") =>
        \A n \in RegNames :
            /\ Cardinality(Winners(n)) <= 1
            /\ \A t \in Winners(n) : DictGet(tools, n) = [name |-> n, id |-> t]
            /\ \A t \in Losers(n) : DictHas(tools, n) /\ DictGet(tools, n).id # t
            /\ (Registrants(n) # {} /\ \A t \in Registrants(n) : tpc[t] = "done") =>
                   /\ Cardinality(Winners(n)) = 1
                   /\ Cardinality(Losers(n)) = Cardinality(Registrants(n)) - 1

C1_Witness ==
    \E n \in RegNames :
        /\ \A t \in Threads : top[t].kind = "register" /\ top[t].name = n /\ tpc[t] = "done"
        /\ Cardinality(Losers(n)) = NumThreads - 1

\* C2: a list returned by list_all never changes afterwards, whatever register
\* or clear does to the registry, and the list a list_all call returns is the
\* registry's content at that call.
C2_SnapshotUnchanged ==
    [][\A t \in Threads :
          /\ snap[t] # NoSnap =>
                 /\ snap'[t] = snap[t]
                 /\ ContentsIn(snap'[t], tools') = ContentsIn(snap[t], tools)
          /\ (tpc[t] = "body" /\ top[t].kind = "list_all" /\ tpc'[t] = "done") =>
                 ContentsIn(snap'[t], tools') = tools]_vars

C2_Witness ==
    \E t \in Threads :
        /\ snap[t] # NoSnap
        /\ Len(ContentsIn(snap[t], tools)) = 1
        /\ tools # ContentsIn(snap[t], tools)

\* the register calls that are the only one for their name
SoleRegistrants == {t \in Threads : top[t].kind = "register" /\ Registrants(top[t].name) = {t}}

IsPrefix(p, d) == Len(p) <= Len(d) /\ \A i \in 1..Len(p) : p[i] = d[i]

\* thread t's read returns in this step
ReadReturns(t) == tpc[t] = "body" /\ top[t].kind \in {"get", "list_all"} /\ tpc'[t] = "done"

\* C21: as long as nobody clears the registry, every register call that is
\* the only one for its name succeeds and its descriptor stays in the
\* registry, so that once all callers have returned the registry holds
\* exactly the registered names, one whole descriptor each; a get or list_all
\* running next to them ends with a result, not an error, and that result is
\* the registry's content at the step in which it returns: a list is made of
\* whole descriptors of successful registrations, in the order they were
\* inserted, and a found name is in the registry.
C21_ConcurrentRegistrationsAndReads ==
    /\ []((\A t \in Threads : top[t].kind # "clear") =>
            /\ \A t \in SoleRegistrants :
                   tpc[t] = "done" => tres[t] = "ok" /\ DictGet(tools, top[t].name) = DescOf(t)
            /\ (\A t \in Threads : tpc[t] = "done") =>
                   /\ DictNames(tools) = {top[t].name : t \in {u \in Threads : top[u].kind = "register"}}
                   /\ Len(tools) = Cardinality(DictNames(tools))
            /\ \A t \in Threads :
                   /\ (top[t].kind = "get" /\ tpc[t] = "done") => tres[t] \in {"found", "absent"}
                   /\ tres[t] = "found" => DictHas(tools, top[t].name)
                   /\ (top[t].kind = "list_all" /\ tpc[t] = "done") =>
                          /\ tres[t] = "listed"
                          /\ snap[t].kind = "list"
                          /\ IsPrefix(snap[t].items, tools)
                          /\ \A i \in 1..Len(snap[t].items) :
                                 \E u \in Threads : tres[u] = "ok" /\ snap[t].items[i] = DescOf(u))
    /\ [][\A t \in Threads :
             ReadReturns(t) =>
                 /\ tools' = tools
                 /\ top[t].kind = "get" =>
                        tres'[t] = (IF DictHas(tools, top[t].name) THEN "found" ELSE "absent")
                 /\ top[t].kind = "list_all" => ContentsIn(snap'[t], tools') = tools]_vars

\* all threads have returned: two registered two different names and the
\* third listed the registry between the two insertions
C21_Witness ==
    /\ \A t \in Threads : tpc[t] = "done"
    /\ Cardinality(SoleRegistrants) = 2
    /\ Len(tools) = 2
    /\ \E t \in Threads : top[t].kind = "list_all" /\ Len(snap[t].items) = 1

(***************************************************************************)
(* pydantic models (olive/schemas.py)                                      *)
(***************************************************************************)
DefaultTimeoutSeconds == 300

DefaultMaxAttempts == 3

\* class ToolInjection: param, config_key, required
ToolInjection(kwargs) == Model([param |-> "", config_key |-> "", required |-> TRUE], kwargs)

\* class ToolInfo: the fields call_tool reads (description and the two schemas are left out)
ToolInfo(kwargs) ==
    Model([name |-> "", func |-> PyNone, timeout_seconds |-> DefaultTimeoutSeconds,
           retry_policy |-> PyNone, injections |-> <<>>], kwargs)

\* class ToolCallResponse: success, result, error, metadata
ToolCallResponse(kwargs) ==
    Model([success |-> FALSE, result |-> PyNone, error |-> PyNone, metadata |-> PyNone], kwargs)

(***************************************************************************)
(* Tools and requests                                                      *)
(***************************************************************************)
MaxInjections == 2

ToolNames == {"t"}

Params == {"p", "q"}

Keys == {"k1", "k2"}

\* the declared base type of an injected parameter, as a JSON schema type
HintOf(param) == IF param = "p" THEN "string" ELSE "integer"

\* Annotated[<type>, Inject(key=..., required=...)] on parameter param
InjectMarkers == [param : Params, key : Keys, required : BOOLEAN]

InjectLists ==
    {l \in UNION {[1..n -> InjectMarkers] : n \in 0..MaxInjections} :
        \A i, j \in 1..Len(l) : i # j => l[i].param # l[j].param}

\* a decorated function: its name, async def or def, its injected parameters in signature order
Funcs == [name : ToolNames, coroutine : BOOLEAN, injects : InjectLists]

CallerValues == {Val("str", "caller")}

ContextValues == {Val("str", "ctx"), Val("int", "ctx"), Val("bool", "ctx"), PyNone}

DictsOver(keys, vals) == UNION {[S -> vals] : S \in SUBSET keys}

Requests ==
    [tool_name : ToolNames \cup {"ghost"},
     arguments : DictsOver(Params, CallerValues),
     context   : {PyNone} \cup DictsOver(Keys, ContextValues)]

WorkerObj == [type |-> "TemporalWorker"]

\* extract_schema_from_function: one ToolInjection per Inject marker, in order
ExtractInjections(f) ==
    [i \in 1..Len(f.injects) |->
        [ToolInjection([config_key |-> f.injects[i].key, required |-> f.injects[i].required])
            EXCEPT !.param = f.injects[i].param]]

\* the ToolInfo the olive_tool decorator builds
DecoratedToolInfo(f, fire_and_forget) ==
    ToolInfo([name |-> f.name, func |-> f, timeout_seconds |-> DefaultTimeoutSeconds,
              retry_policy |-> [max_attempts |-> DefaultMaxAttempts],
              fire_and_forget |-> fire_and_forget,
              injections |-> ExtractInjections(f), profiles |-> <<>>])

(***************************************************************************)
(* call_tool (olive/router.py)                                             *)
(***************************************************************************)
\* _TYPE_CHECKS: JSON schema type -> accepted Python types
TypeChecks ==
    [string |-> {"str"}, integer |-> {"int"}, number |-> {"int", "float"},
     boolean |-> {"bool"}, array |-> {"list"}, object |-> {"dict"}]

\* isinstance(value, types); bool is a subclass of int
IsInstance(value, types) == value.type \in types \/ (value.type = "bool" /\ "int" \in types)

\* a or b
Or(a, b) == IF a # PyNone THEN a ELSE b

\* context.get(config_key) after context = tool_request.context or {}
ContextGet(context, key) ==
    IF context # PyNone /\ key \in DOMAIN context THEN context[key] ELSE PyNone

Exc(cls, msg) == [cls |-> cls, msg |-> msg]

\* the classes below Exception; CancelledError and SystemExit derive from BaseException only
ExceptionClasses == {"ValueError", "AttributeError", "TimeoutError"}

AttributeError(cls, attr) ==
    Exc("AttributeError", Fmt("'{}' object has no attribute '{}'", <<cls, attr>>))

NotFoundResponse(r) ==
    ToolCallResponse([success |-> FALSE,
                      error |-> Fmt("Tool '{}' not found", <<r.tool_name>>),
                      error_type |-> Str("tool_not_found")])

ValidationResponse(inj, value) ==
    ToolCallResponse([success |-> FALSE,
                      error |-> Fmt("Context key '{}' for param '{}' expected type '{}', got '{}'",
                                    <<inj.config_key, inj.param, inj.expected_type.s, value.type>>),
                      error_type |-> Str("validation_error")])

MissingResponse(inj) ==
    ToolCallResponse([success |-> FALSE,
                      error |-> Fmt("Missing required context value '{}' for param '{}'",
                                    <<inj.config_key, inj.param>>),
                      error_type |-> Str("missing_context")])

TimeoutResponse(ti) ==
    ToolCallResponse([success |-> FALSE,
                      error |-> Fmt("Tool '{}' timed out after {}s",
                                    <<ti.name, ToString(ti.timeout_seconds)>>),
                      error_type |-> Str("timeout")])

ExecutionErrorResponse(e) ==
    ToolCallResponse([success |-> FALSE, error |-> e.msg, error_type |-> Str("execution_error")])

SuccessResponse(result) == ToolCallResponse([success |-> TRUE, result |-> result])

AlreadyProvidedNever(param, args) == FALSE

\* not (param not in final_args)
AlreadyProvided(param, args) == param \in DOMAIN args

\* the injection loop from injection i on: "ok" with the final arguments, an
\* early "return" of a response, or an exception raised inside the try block
RECURSIVE Resolve(_, _, _, _)
Resolve(injections, i, args, context) ==
    IF i > Len(injections) THEN [status |-> "ok", final_args |-> args]
    ELSE LET inj   == injections[i]
             value == ContextGet(context, inj.config_key)
         IN  IF AlreadyProvided(inj.param, args) THEN Resolve(injections, i + 1, args, context)
             ELSE IF value # PyNone THEN
                 IF ~HasAttr(inj, "expected_type")
                 THEN [status |-> "raise", exc |-> AttributeError("ToolInjection", "expected_type")]
                 ELSE IF /\ inj.expected_type # PyNone
                         /\ inj.expected_type.s \in DOMAIN TypeChecks
                         /\ ~IsInstance(value, TypeChecks[inj.expected_type.s])
                 THEN [status |-> "return", response |-> ValidationResponse(inj, value)]
                 ELSE Resolve(injections, i + 1, (inj.param :> value) @@ args, context)
             ELSE IF inj.required
                 THEN [status |-> "return", response |-> MissingResponse(inj)]
                 ELSE Resolve(injections, i + 1, args, context)

OuterCatchesValueErrorOnly(e) == e.cls = "ValueError"

\* except Exception as e: (the try block around everything after the lookup)
OuterCatches(e) == e.cls \in ExceptionClasses

InnerCatchesNothing(e) == FALSE

\* except TimeoutError: (the try block around the two wait_for calls)
InnerCatches(e) == e.cls = "TimeoutError"

Returned(resp, args) ==
    [cpc |-> "responded", response |-> resp, raised |-> NoExc, final_args |-> args]

\* an exception raised inside the outer try block
RaisedInOuter(e, args) ==
    IF OuterCatches(e)
    THEN [cpc |-> "responded", response |-> ExecutionErrorResponse(e), raised |-> e,
          final_args |-> args]
    ELSE [cpc |-> "escaped", response |-> NoResponse, raised |-> e, final_args |-> args]

\* an exception raised by the awaited wait_for
RaisedInInner(e, ti, args) ==
    IF InnerCatches(e)
    THEN [cpc |-> "responded", response |-> TimeoutResponse(ti), raised |-> e, final_args |-> args]
    ELSE RaisedInOuter(e, args)

\* call_tool from its entry to its first await or its return (arguments is
\* always a dict, so the normalisation of a falsy arguments value changes nothing)
Dispatch(r, registry, temporal_worker) ==
    LET ti == DictGet(registry, r.tool_name)
    IN  IF ti = PyNone THEN Returned(NotFoundResponse(r), EmptyDict)
        ELSE LET res == Resolve(ti.injections, 1, r.arguments, r.context)
             IN  IF res.status = "return" THEN Returned(res.response, EmptyDict)
                 ELSE IF res.status = "raise" THEN RaisedInOuter(res.exc, EmptyDict)
                 ELSE IF temporal_worker # PyNone THEN
                     IF ~HasAttr(ti, "fire_and_forget")
                     THEN RaisedInOuter(AttributeError("ToolInfo", "fire_and_forget"), res.final_args)
                     ELSE [cpc |-> IF ti.fire_and_forget THEN "start_tool" ELSE "execute_tool",
                           response |-> NoResponse, raised |-> NoExc, final_args |-> res.final_args]
                 ELSE [cpc |-> "running", response |-> NoResponse, raised |-> NoExc,
                       final_args |-> res.final_args]

ReturnValues == {Val("int", "result"), PyNone}

\* what a tool's callable may raise: an ordinary error, a TimeoutError of its
\* own (socket.timeout is one), CancelledError, SystemExit
ToolRaises == {"ValueError", "TimeoutError", "CancelledError", "SystemExit"}

CallableEnds ==
    [kind : {"returned"}, value : ReturnValues]
        \cup [kind : {"raised"}, exc : {Exc(c, Str("boom")) : c \in ToolRaises}]

\* asyncio.wait_for (Python 3.12, asyncio.timeout): once the deadline has
\* expired, a CancelledError leaving the awaited callable becomes TimeoutError
WaitForRaises(e, fired) ==
    IF fired /\ e.cls = "CancelledError" THEN Exc("TimeoutError", Str("")) ELSE e

InitCall == InitRegistryVars /\ InitCallVars /\ InitExtVars

\* @olive_tool on a function, at import time: build the ToolInfo and register
\* it (for a name already registered, register raises and nothing changes)
OliveTool ==
    /\ cpc = "idle"
    /\ LockFree
    /\ \E f \in Funcs, fire_and_forget \in BOOLEAN :
          /\ ~DictHas(tools, f.name)
          /\ tools' = DictSet(tools, DecoratedToolInfo(f, fire_and_forget))
          /\ declared' = declared \cup {[name |-> f.name, fire_and_forget |-> fire_and_forget]}
    /\ UNCHANGED <<lock, tpc, top, tres, snap>>
    /\ UNCHANGED callVars
    /\ UNCHANGED otherExtVars

\* set_temporal_worker(worker)
SetTemporalWorker ==
    /\ cpc = "idle"
    /\ \E w \in {PyNone, WorkerObj} : fallbackWorker' = w
    /\ UNCHANGED regVars
    /\ UNCHANGED extVars
    /\ UNCHANGED <<appWorker, cpc, req, tool_info, final_args, raised, response, timerFired,
                   invoked, submitted, bg, callEnd>>

\* POST /tools/call: call_tool up to its first await or its return
CallTool ==
    /\ cpc = "idle"
    /\ LockFree
    /\ \E r \in Requests :
          LET out == Dispatch(r, tools, Or(appWorker, fallbackWorker))
          IN  /\ req' = r
              /\ tool_info' = DictGet(tools, r.tool_name)
              /\ cpc' = out.cpc
              /\ response' = out.response
              /\ raised' = out.raised
              /\ final_args' = out.final_args
              /\ invoked' = IF out.cpc = "running" THEN invoked + 1 ELSE invoked
              /\ submitted' = IF out.cpc \in {"start_tool", "execute_tool"}
                              THEN submitted + 1 ELSE submitted
    /\ UNCHANGED regVars
    /\ UNCHANGED extVars
    /\ UNCHANGED <<appWorker, fallbackWorker, timerFired, bg, callEnd>>

\* the awaited callable returns: return ToolCallResponse(success=True, result=result)
CallableReturns ==
    /\ cpc = "running"
    /\ \E v \in ReturnValues :
          /\ callEnd' = [kind |-> "returned", value |-> v]
          /\ response' = SuccessResponse(v)
    /\ cpc' = "responded"
    /\ UNCHANGED regVars
    /\ UNCHANGED extVars
    /\ UNCHANGED <<appWorker, fallbackWorker, req, tool_info, final_args, raised, timerFired,
                   invoked, submitted, bg>>

\* the awaited callable raises
CallableRaises ==
    /\ cpc = "running"
    /\ \E c \in ToolRaises :
          LET e   == Exc(c, Str("boom"))
              out == RaisedInInner(WaitForRaises(e, timerFired), tool_info, final_args)
          IN  /\ callEnd' = [kind |-> "raised", exc |-> e]
              /\ cpc' = out.cpc
              /\ response' = out.response
              /\ raised' = out.raised
    /\ UNCHANGED regVars
    /\ UNCHANGED extVars
    /\ UNCHANGED <<appWorker, fallbackWorker, req, tool_info, final_args, timerFired,
                   invoked, submitted, bg>>

\* the wait_for deadline expires while the callable is still running.
\* def tool: the awaited executor future is cancelled, TimeoutError is raised
\* at once and the executor thread keeps running the callable.
\* async def tool: CancelledError is thrown into the coroutine at its
\* suspension point; it either lets it propagate (TimeoutError is raised) or
\* catches it and keeps running, and wait_for keeps waiting for it.
TimerFires ==
    /\ cpc = "running"
    /\ ~timerFired
    /\ timerFired' = TRUE
    /\ \E propagates \in BOOLEAN :
          IF ~tool_info.func.coroutine \/ propagates
          THEN LET out == RaisedInInner(Exc("TimeoutError", Str("")), tool_info, final_args)
               IN  /\ cpc' = out.cpc
                   /\ response' = out.response
                   /\ raised' = out.raised
                   /\ bg' = IF tool_info.func.coroutine THEN bg ELSE "running"
                   /\ callEnd' = IF tool_info.func.coroutine
                                 THEN [kind |-> "raised", exc |-> Exc("CancelledError", Str(""))]
                                 ELSE callEnd
          ELSE UNCHANGED <<cpc, response, raised, bg, callEnd>>
    /\ UNCHANGED regVars
    /\ UNCHANGED extVars
    /\ UNCHANGED <<appWorker, fallbackWorker, req, tool_info, final_args, invoked, submitted>>

\* the executor thread finishes a callable whose caller has already timed out;
\* nobody awaits its future any more
BackgroundFinishes ==
    /\ bg = "running"
    /\ bg' = "finished"
    /\ \E end \in CallableEnds : callEnd' = end
    /\ UNCHANGED regVars
    /\ UNCHANGED extVars
    /\ UNCHANGED <<appWorker, fallbackWorker, cpc, req, tool_info, final_args, raised, response,
                   timerFired, invoked, submitted>>

NextCall ==
    \/ OliveTool
    \/ SetTemporalWorker
    \/ CallTool
    \/ CallableReturns
    \/ CallableRaises
    \/ TimerFires
    \/ BackgroundFinishes

SpecCall == InitCall /\ [][NextCall]_vars

(***************************************************************************)
(* call_tool claims                                                        *)
(***************************************************************************)
Called == cpc # "idle"

\* the errorKind a client reads from the response
ErrorKind(resp) == IF HasAttr(resp, "error_type") THEN resp.error_type ELSE PyNone

KeyAbsent(context, key) == context = PyNone \/ key \notin DOMAIN context

\* JSON primitive category of a context value
JsonCategory(value) ==
    CASE value.type = "str" -> "string"
      [] value.type = "int" -> "integer"
      [] value.type = "float" -> "number"
      [] value.type = "bool" -> "boolean"
      [] value.type = "list" -> "array"
      [] value.type = "dict" -> "object"
      [] OTHER -> "null"

ResolutionFailed ==
    tool_info # PyNone /\ Resolve(tool_info.injections, 1, req.arguments, req.context).status # "ok"

FailureCause == tool_info = PyNone \/ ResolutionFailed \/ raised # NoExc

C4_ToolNotFound ==
    (Called /\ tool_info = PyNone) =>
        /\ cpc = "responded"
        /\ response.success = FALSE
        /\ ErrorKind(response) = Str("tool_not_found")
        /\ Mentions(response.error, req.tool_name)
        /\ invoked = 0
        /\ submitted = 0

\* C5: every response carries an error message and an errorKind exactly when
\* success is false, and a result only when success is true.
C5_ErrorIffFailure ==
    cpc = "responded" =>
        /\ (response.success = FALSE) <=> (response.error # PyNone /\ ErrorKind(response) # PyNone)
        /\ response.result # PyNone => response.success = TRUE

\* C6: in direct mode an exception raised by the callable before the deadline
\* is answered with success=false, errorKind execution_error and the
\* exception's message as error.
C6_CallableRaisesExecutionError ==
    (callEnd.kind = "raised" /\ ~timerFired) =>
        /\ cpc = "responded"
        /\ response.success = FALSE
        /\ ErrorKind(response) = Str("execution_error")
        /\ response.error = callEnd.exc.msg

\* C7: in direct mode, once the deadline has expired with the callable still
\* running, the caller has its answer: success=false with errorKind timeout.
C7_TimeoutUnblocksCaller ==
    timerFired =>
        /\ cpc = "responded"
        /\ response.success = FALSE
        /\ ErrorKind(response) = Str("timeout")

\* C8: a required injection whose parameter is not among the arguments and
\* whose key is absent from the context is answered with success=false,
\* errorKind missing_context and an error naming key and parameter, and no
\* backend is invoked.
C8_MissingContext ==
    (Called /\ tool_info # PyNone) =>
        \A i \in 1..Len(tool_info.injections) :
            LET inj == tool_info.injections[i]
            IN  (/\ inj.required
                 /\ inj.param \notin DOMAIN req.arguments
                 /\ KeyAbsent(req.context, inj.config_key)) =>
                    /\ cpc = "responded"
                    /\ response.success = FALSE
                    /\ ErrorKind(response) = Str("missing_context")
                    /\ Mentions(response.error, inj.config_key)
                    /\ Mentions(response.error, inj.param)
                    /\ invoked = 0
                    /\ submitted = 0

\* C9: an injection whose parameter is not among the arguments and whose
\* context value has a JSON category other than the parameter's declared type
\* is answered with success=false, errorKind validation_error and an error
\* naming parameter, key, expected type and actual type; nothing is merged and
\* no backend is invoked.
C9_TypeMismatchValidationError ==
    (Called /\ tool_info # PyNone) =>
        \A i \in 1..Len(tool_info.injections) :
            LET inj      == tool_info.injections[i]
                expected == HintOf(inj.param)
                value    == ContextGet(req.context, inj.config_key)
            IN  (/\ inj.param \notin DOMAIN req.arguments
                 /\ ~KeyAbsent(req.context, inj.config_key)
                 /\ JsonCategory(value) # expected) =>
                    /\ cpc = "responded"
                    /\ response.success = FALSE
                    /\ ErrorKind(response) = Str("validation_error")
                    /\ Mentions(response.error, inj.param)
                    /\ Mentions(response.error, inj.config_key)
                    /\ Mentions(response.error, expected)
                    /\ Mentions(response.error, value.type)
                    /\ final_args = EmptyDict
                    /\ invoked = 0
                    /\ submitted = 0

NotExplicit(inj) == inj.param \notin DOMAIN req.arguments

\* C10: every argument the caller supplied reaches the final arguments with the
\* caller's value, and the outcome of injection resolution is the outcome for
\* the tool's injections without those whose parameter the caller supplied:
\* their context values are neither merged nor checked, and no missing-context
\* or validation failure is reported for them.
C10_ExplicitArgumentsWin ==
    (Called /\ tool_info # PyNone) =>
        LET res == Resolve(SelectSeq(tool_info.injections, NotExplicit), 1,
                           req.arguments, req.context)
        IN  /\ \A p \in DOMAIN req.arguments \cap DOMAIN final_args :
                   final_args[p] = req.arguments[p]
            /\ res.status = "ok" =>
                   /\ final_args = res.final_args
                   /\ DOMAIN req.arguments \subseteq DOMAIN final_args
                   /\ cpc = "responded" /\ raised = NoExc => response.success = TRUE
            /\ res.status = "return" => cpc = "responded" /\ response = res.response
            /\ res.status = "raise" => raised = res.exc

C10_Witness ==
    /\ Called
    /\ tool_info # PyNone
    /\ cpc = "responded"
    /\ response.success = TRUE
    /\ \E i \in 1..Len(tool_info.injections) :
          LET inj == tool_info.injections[i]
          IN  /\ inj.required
              /\ inj.param = "p"
              /\ inj.param \in DOMAIN req.arguments
              /\ ~KeyAbsent(req.context, inj.config_key)
              /\ req.context[inj.config_key].type = "int"
              /\ final_args[inj.param] = Val("str", "caller")

\* the call reached the backend choice of a dispatcher that has a durable worker
DurableCall ==
    /\ Called
    /\ tool_info # PyNone
    /\ ~ResolutionFailed
    /\ Or(appWorker, fallbackWorker) # PyNone

DeclaredFireAndForget(name, flag) == [name |-> name, fire_and_forget |-> flag] \in declared

\* C12: a durable call of a tool declared fire-and-forget is answered, once the
\* workflow is started and whatever happens to it later, with success=true and
\* metadata fire_and_forget=true and the started workflow's id; exactly one
\* workflow was submitted for it.
C12_FireAndForgetReturnsAtStart ==
    (DurableCall /\ DeclaredFireAndForget(req.tool_name, TRUE) /\ cpc \notin {"idle", "start_tool"}) =>
        /\ cpc = "responded"
        /\ submitted = 1
        /\ response.success = TRUE
        /\ response.metadata # PyNone
        /\ response.metadata.fire_and_forget = TRUE
        /\ "workflow_id" \in DOMAIN response.metadata

\* C13: a durable call of a tool not declared fire-and-forget is answered only
\* after its workflow completed, with success=true, the workflow's output as
\* result and metadata executed_via=temporal, workflow_type=OliveToolWorkflow.
C13_WaitForResultReturnsOutput ==
    (DurableCall /\ DeclaredFireAndForget(req.tool_name, FALSE) /\ cpc \notin {"idle", "execute_tool"}) =>
        /\ cpc = "responded"
        /\ submitted = 1
        /\ response.success = TRUE
        /\ response.metadata # PyNone
        /\ response.metadata.executed_via = Str("temporal")
        /\ response.metadata.workflow_type = Str("OliveToolWorkflow")

\* the callable was started in-process for the request
DirectInvocation == invoked = 1

\* C22, as stated: a direct-mode invocation ends with exactly one result; when
\* the callable returns before the deadline the result is success with the
\* callable's value and never Timeout; when the deadline expires first the
\* result is Timeout and never the callable's value.
C22_FirstCompletionDecides ==
    (DirectInvocation /\ cpc # "running") =>
        /\ cpc = "responded"
        /\ ~timerFired =>
               /\ ErrorKind(response) # Str("timeout")
               /\ callEnd.kind = "returned" => response = SuccessResponse(callEnd.value)
        /\ timerFired =>
               /\ response.success = FALSE
               /\ ErrorKind(response) = Str("timeout")

\* the deadline of a blocking tool's call has expired
BlockingTimedOut == timerFired /\ tool_info # PyNone /\ ~tool_info.func.coroutine

DirectCall ==
    /\ Called
    /\ tool_info # PyNone
    /\ ~ResolutionFailed
    /\ Or(appWorker, fallbackWorker) = PyNone

\* C24, as stated: a call of a registered tool whose injections resolve is,
\* with a durable worker configured, submitted to the worker exactly once with
\* the resolved arguments (start_tool for a tool declared fire-and-forget,
\* execute_tool otherwise) and never run in-process; without a worker it runs
\* the callable in-process exactly once, submits nothing and answers without
\* metadata.
C24_BackendSelection ==
    /\ DurableCall =>
           /\ submitted = 1
           /\ invoked = 0
           /\ final_args = Resolve(tool_info.injections, 1, req.arguments, req.context).final_args
           /\ cpc = "start_tool" => DeclaredFireAndForget(req.tool_name, TRUE)
           /\ cpc = "execute_tool" => DeclaredFireAndForget(req.tool_name, FALSE)
    /\ DirectCall =>
           /\ invoked = 1
           /\ submitted = 0
           /\ cpc = "responded" => response.metadata = PyNone

\* C26, as stated: a call served by an application whose own worker
\* reference is empty (its startup ran with durable mode disabled) is executed
\* by the direct backend, whatever other applications of the process have
\* done to the module's fallback reference by starting up or shutting down:
\* if the tool is found and its injections resolve, the callable is started
\* in-process and nothing is handed to a durable worker.
C26_DisabledAppRunsDirect ==
    (Called /\ appWorker = PyNone /\ tool_info # PyNone /\ ~ResolutionFailed) =>
        /\ invoked = 1
        /\ submitted = 0
        /\ raised # AttributeError("ToolInfo", "fire_and_forget")

\* C30, as stated: for an injection whose parameter the caller did not pass
\* and whose context key is present in the supplied context, with any value
\* including null, the call is never answered with the missing-context
\* failure for it, and when resolution succeeds the value found under the key
\* is in the final arguments, for an optional injection too.
C30_PresentKeyNeverMissing ==
    (Called /\ tool_info # PyNone) =>
        \A i \in 1..Len(tool_info.injections) :
            LET inj == tool_info.injections[i]
            IN  (inj.param \notin DOMAIN req.arguments /\ ~KeyAbsent(req.context, inj.config_key)) =>
                    /\ ~(cpc = "responded" /\ response = MissingResponse(inj))
                    /\ ~ResolutionFailed =>
                           /\ inj.param \in DOMAIN final_args
                           /\ final_args[inj.param] = req.context[inj.config_key]

(***************************************************************************)
(* OliveClient (olive_client/client.py)                                    *)
(***************************************************************************)
\* the contexts a caller hands to the client: dicts over the injection keys
ClientContexts == DictsOver(Keys, {Val("str", "ctx"), Val("int", "ctx")})

\* runtime.context of a LangGraph ToolRuntime: absent, or a mapping whose values may be None
RuntimeContexts == {PyNone} \cup DictsOver(Keys, {Val("str", "ctx"), PyNone})

ClientArguments == DictsOver({"x"}, CallerValues)

\* bool(x) of a dict or None
Truthy(x) == x # PyNone /\ x # EmptyDict

\* the body of the server's answer to POST /olive/tools/call
ServerReplies ==
    {[success |-> TRUE, result |-> Val("str", "out")],
     [success |-> FALSE, error |-> Str("boom")],
     [success |-> FALSE]}

EffectiveContextOr(context, stored) == IF Truthy(context) THEN context ELSE stored

\* effective_context = context if context is not None else self._elevenlabs_context
EffectiveContext(context, stored) == IF context # PyNone THEN context ELSE stored

\* payload = {"tool_name": ..., "arguments": ...}; if effective_context: payload["context"] = ...
PayloadOf(tool_name, arguments, context, stored) ==
    LET effective_context == EffectiveContext(context, stored)
        args == IF arguments = PyNone THEN EmptyDict ELSE arguments
    IN  IF Truthy(effective_context)
        THEN [tool_name |-> tool_name, arguments |-> args, context |-> effective_context]
        ELSE [tool_name |-> tool_name, arguments |-> args]

\* data = response.json(); a failed call raises Exception(f"Tool call failed: {error}")
ClientEnd(data) ==
    IF ~data.success
    THEN [kind |-> "raise", cls |-> "Exception",
          msg |-> Fmt("Tool call failed: {}",
                      <<IF "error" \in DOMAIN data THEN data.error ELSE Str("Unknown error")>>)]
    ELSE [kind |-> "return", value |-> data.result]

\* OliveClient.call_tool(tool_name, arguments, context), reached through via
ClientCallTool(via, tool_name, arguments, context) ==
    /\ clientCall' = [via |-> via, context |-> context, stored |-> elevenlabs_context]
    /\ payload' = PayloadOf(tool_name, arguments, context, elevenlabs_context)
    /\ \/ \E data \in ServerReplies : clientOut' = ClientEnd(data)
       \/ clientOut' = [kind |-> "raise", cls |-> "HTTPStatusError", msg |-> PyNone]
    /\ UNCHANGED elevenlabs_context

notClientVars ==
    <<regVars, callVars, declared, workerVars, durableVars, appVars, schemaVars, activities, calls>>

\* get_context_value inside the LangGraph tool: None context, or Mapping.get(key)
GetContextValue(context, key) ==
    IF context = PyNone THEN PyNone
    ELSE IF key \in DOMAIN context THEN context[key] ELSE PyNone

\* the injections whose key has no value in the runtime context and are required
MissingRequired(injections, ctx) ==
    {i \in 1..Len(injections) :
        GetContextValue(ctx, injections[i].key) = PyNone /\ injections[i].required}

\* olive_context: the non-None values of the injected keys
OliveContext(injections, ctx) ==
    [k \in {injections[i].key : i \in {j \in 1..Len(injections) :
                                          GetContextValue(ctx, injections[j].key) # PyNone}}
        |-> ctx[k]]

\* as_elevenlabs_tools(context=...): a truthy context is stored, then the tools are fetched
AsElevenlabsTools ==
    /\ \E context \in {PyNone} \cup ClientContexts :
          /\ elevenlabs_context' = IF Truthy(context) THEN context ELSE elevenlabs_context
          /\ clientCall' = [via |-> "as_elevenlabs_tools", context |-> context,
                            stored |-> elevenlabs_context]
    /\ payload' = NoPayload
    /\ \E kind \in {"return", "raise"} :
          clientOut' = IF kind = "return" THEN [kind |-> "return", value |-> Val("list", "tools")]
                       ELSE [kind |-> "raise", cls |-> "HTTPStatusError", msg |-> PyNone]
    /\ UNCHANGED notClientVars

\* await client.call_tool(name, arguments, context) by the application itself
CallToolDirect ==
    /\ \E tool_name \in ToolNames, arguments \in {PyNone} \cup ClientArguments,
          context \in {PyNone} \cup ClientContexts :
          ClientCallTool("direct", tool_name, arguments, context)
    /\ UNCHANGED notClientVars

\* a tool built by as_langchain_tools: call_tool(name, kwargs), no context argument
LangChainToolCall ==
    /\ \E tool_name \in ToolNames, kwargs \in ClientArguments :
          ClientCallTool("langchain", tool_name, kwargs, PyNone)
    /\ UNCHANGED notClientVars

\* a tool built by as_langchain_tools_injecting: cfg_map = context_provider(cfg) or {},
\* call_tool(name, kwargs, context=dict(cfg_map) if cfg_map else None)
InjectingToolCall ==
    /\ \E tool_name \in ToolNames, kwargs \in ClientArguments,
          provided \in {PyNone} \cup ClientContexts :
          LET cfg_map == IF Truthy(provided) THEN provided ELSE EmptyDict
          IN  ClientCallTool("injecting", tool_name, kwargs,
                             IF Truthy(cfg_map) THEN cfg_map ELSE PyNone)
    /\ UNCHANGED notClientVars

\* a tool built by as_langgraph_tools, run with a ToolRuntime: a missing required
\* injection raises ValueError before anything is sent, otherwise
\* call_tool(name, kwargs, context=olive_context) with olive_context possibly empty
LangGraphToolCall ==
    /\ \E tool_name \in ToolNames, kwargs \in ClientArguments, injections \in InjectLists,
          ctx \in RuntimeContexts :
          IF MissingRequired(injections, ctx) # {}
          THEN /\ clientCall' = [via |-> "langgraph", context |-> PyNone,
                                 stored |-> elevenlabs_context]
               /\ payload' = NoPayload
               /\ clientOut' = [kind |-> "raise", cls |-> "ValueError", msg |-> PyNone]
               /\ UNCHANGED elevenlabs_context
          ELSE ClientCallTool("langgraph", tool_name, kwargs, OliveContext(injections, ctx))
    /\ UNCHANGED notClientVars

NextClient ==
    \/ AsElevenlabsTools
    \/ CallToolDirect
    \/ LangChainToolCall
    \/ InjectingToolCall
    \/ LangGraphToolCall

InitClient == InitRegistryVars /\ InitCallVars /\ InitExtVars

SpecClient == InitClient /\ [][NextClient]_vars

(***************************************************************************)
(* Client claims                                                           *)
(***************************************************************************)
Posted == payload # NoPayload

GivenEmpty == clientCall.via \in {"direct", "langgraph"} /\ clientCall.context = EmptyDict

\* C11: once a non-empty context C is stored by as_elevenlabs_tools, a call_tool
\* given the empty context, directly or by a LangGraph tool whose runtime context
\* yields no injection value, posts a body without a context, while a call_tool
\* given no context posts C.
C11_EmptyContextNotReplaced ==
    (Posted /\ clientCall.stored # PyNone) =>
        /\ clientCall.stored # EmptyDict
        /\ GivenEmpty => "context" \notin DOMAIN payload
        /\ clientCall.context = PyNone =>
               "context" \in DOMAIN payload /\ payload.context = clientCall.stored

C11_Witness ==
    /\ Posted
    /\ clientCall.via = "langgraph"
    /\ clientCall.context = EmptyDict
    /\ clientCall.stored \in ClientContexts \ {EmptyDict}
    /\ "context" \notin DOMAIN payload

\* C29, as stated: a tool built by as_langchain_tools_injecting whose context
\* provider yields an empty mapping (so that it hands call_tool no context)
\* posts a body without a context, also when as_elevenlabs_tools stored a
\* non-empty context on the client before.
C29_InjectingToolNoStoredContext ==
    (Posted /\ clientCall.via = "injecting" /\ clientCall.context = PyNone) =>
        "context" \notin DOMAIN payload

(***************************************************************************)
(* TemporalWorker lifecycle (olive/temporal/worker.py)                     *)
(***************************************************************************)
MaxStarts == 3

MaxStops == 2

ClientObj == [type |-> "Client"]

\* _get_client: the cached client, or (no TLS paths are configured) the read of
\* temporal_config.namespace_endpoint and then Client.connect, which may fail
GetClientOutcomes(client, cfg) ==
    IF client # PyNone THEN {"cached"}
    ELSE IF ~HasAttr(cfg.temporal, "namespace_endpoint") THEN {"AttributeError"}
    ELSE {"connected", "ConnectError"}

GotClient(outcome) == outcome \in {"cached", "connected"}

\* Thread.is_alive() of the i-th thread created
IsAlive(threads, i) == threads[i].pc # "dead"

ShouldStartAlways(thread, threads) == TRUE

\* if self._worker_thread is None or not self._worker_thread.is_alive():
ShouldStart(thread, threads) == thread = 0 \/ ~IsAlive(threads, thread)

notWorkerVars ==
    <<regVars, callVars, declared, clientVars, durableVars, appVars, schemaVars, activities, calls>>

\* start_background()
StartBackground ==
    /\ starts < MaxStarts
    /\ stop_pc = "idle"
    /\ starts' = starts + 1
    /\ IF ShouldStart(worker_thread, wthreads)
       THEN /\ stop_requested' = FALSE
            /\ wthreads' = Append(wthreads, [pc |-> "connecting"])
            /\ worker_thread' = Len(wthreads) + 1
       ELSE UNCHANGED <<stop_requested, wthreads, worker_thread>>
    /\ UNCHANGED <<config, wclient, async_stop_event, stop_calls, stop_pc, joined>>
    /\ UNCHANGED notWorkerVars

\* _run_worker in thread i: client = await self._get_client(); an exception
\* leaves asyncio.run and ends the thread
ThreadConnects(i) ==
    /\ wthreads[i].pc = "connecting"
    /\ \E outcome \in GetClientOutcomes(wclient, config) :
          IF GotClient(outcome)
          THEN wclient' = ClientObj /\ wthreads' = [wthreads EXCEPT ![i].pc = "setup"]
          ELSE wclient' = wclient /\ wthreads' = [wthreads EXCEPT ![i].pc = "dead"]
    /\ UNCHANGED <<config, worker_thread, async_stop_event, stop_requested, starts, stop_calls,
                   stop_pc, joined>>
    /\ UNCHANGED notWorkerVars

\* create_activity_from_tool: @activity.defn(name=tool_info.name)
ActivityName(ti) == ti.name

\* [create_activity_from_tool(t) for t in _registry.list_all()]
ActivitiesOf(registry) == {ActivityName(registry[k]) : k \in 1..Len(registry)}

\* _run_worker in thread i: the activities are made from the tools the
\* registry lists now and the Worker is built with them, then
\* self._async_stop_event = asyncio.Event() and the thread waits on it
ThreadSetsUp(i) ==
    /\ wthreads[i].pc = "setup"
    /\ LockFree
    /\ activities' = activities \cup {[thread |-> i, names |-> ActivitiesOf(tools)]}
    /\ async_stop_event' = [owner |-> i, set |-> FALSE]
    /\ wthreads' = [wthreads EXCEPT ![i].pc = "waiting"]
    /\ UNCHANGED <<config, wclient, worker_thread, stop_requested, starts, stop_calls, stop_pc,
                   joined>>
    /\ UNCHANGED <<regVars, callVars, declared, clientVars, durableVars, appVars, schemaVars,
                   calls>>

\* await self._async_stop_event.wait() returns once the event is set; the
\* worker shuts down and the thread ends
ThreadLeaves(i) ==
    /\ wthreads[i].pc = "waiting"
    /\ async_stop_event = [owner |-> i, set |-> TRUE]
    /\ wthreads' = [wthreads EXCEPT ![i].pc = "dead"]
    /\ UNCHANGED <<config, wclient, worker_thread, async_stop_event, stop_requested, starts,
                   stop_calls, stop_pc, joined>>
    /\ UNCHANGED notWorkerVars

\* stop(): self._stop_requested.set()
StopCall ==
    /\ stop_pc = "idle"
    /\ stop_calls < MaxStops
    /\ stop_calls' = stop_calls + 1
    /\ stop_requested' = TRUE
    /\ stop_pc' = "flagged"
    /\ joined' = NoJoin
    /\ UNCHANGED <<config, wclient, wthreads, worker_thread, async_stop_event, starts>>
    /\ UNCHANGED notWorkerVars

\* stop(): if self._async_stop_event is not None: self._async_stop_event.set()
StopSignals ==
    /\ stop_pc = "flagged"
    /\ async_stop_event' = IF async_stop_event # PyNone
                           THEN [async_stop_event EXCEPT !.set = TRUE]
                           ELSE async_stop_event
    /\ stop_pc' = "joining"
    /\ UNCHANGED <<config, wclient, wthreads, worker_thread, stop_requested, starts, stop_calls,
                   joined>>
    /\ UNCHANGED notWorkerVars

\* stop(): if self._worker_thread: self._worker_thread.join(timeout=5), which
\* returns when the thread has ended or when the five seconds are over
StopJoins ==
    /\ stop_pc = "joining"
    /\ joined' = IF worker_thread = 0 THEN "skipped"
                 ELSE IF IsAlive(wthreads, worker_thread) THEN "timeout" ELSE "terminated"
    /\ stop_pc' = "idle"
    /\ UNCHANGED <<config, wclient, wthreads, worker_thread, async_stop_event, stop_requested,
                   starts, stop_calls>>
    /\ UNCHANGED notWorkerVars

ThreadStep == \E i \in 1..Len(wthreads) : ThreadConnects(i) \/ ThreadSetsUp(i) \/ ThreadLeaves(i)

StopStep == StopSignals \/ StopJoins

NextWorker ==
    \/ StartBackground
    \/ StopCall
    \/ StopSignals
    \/ StopJoins
    \/ \E i \in 1..Len(wthreads) : ThreadConnects(i)
    \/ \E i \in 1..Len(wthreads) : ThreadSetsUp(i)
    \/ \E i \in 1..Len(wthreads) : ThreadLeaves(i)

InitWorker ==
    /\ InitRegistryVars
    /\ InitCallVars
    /\ \E cfg \in WorkerConfigs : InitExtWith(cfg)

SpecWorker == InitWorker /\ [][NextWorker]_vars

\* a started thread that can run is scheduled, and a stop call that has begun runs on
SpecWorkerLive == SpecWorker /\ WF_vars(ThreadStep) /\ WF_vars(StopStep)

(***************************************************************************)
(* Worker lifecycle claims                                                 *)
(***************************************************************************)
AliveThreads == {i \in 1..Len(wthreads) : IsAlive(wthreads, i)}

\* C15 (as claimed): after start_background calls with no stop in between,
\* exactly one worker thread has been created and it is running.
C15_ExactlyOneThreadRunning ==
    (starts > 0 /\ stop_calls = 0) => Len(wthreads) = 1 /\ AliveThreads = {1}

\* C15 (amended): at any time at most one worker thread is alive, it is the
\* one _worker_thread refers to and every thread created before it has ended
\* (so a call made while the thread is alive created nothing), and once
\* start_background has been called a thread has been created.
C15_AtMostOneThreadAlive ==
    /\ Cardinality(AliveThreads) <= 1
    /\ AliveThreads \subseteq {worker_thread}
    /\ worker_thread = Len(wthreads)
    /\ starts > 0 => Len(wthreads) >= 1

C15_Witness ==
    /\ stop_calls = 0
    /\ starts = 3
    /\ Len(wthreads) = 2
    /\ AliveThreads = {2}

\* C16: once stop() is called on a worker whose start_background() was called,
\* the worker thread eventually ends, and the stop call itself returns.
C16_StopTerminatesThread ==
    /\ (stop_pc # "idle" /\ worker_thread # 0) ~> (AliveThreads = {})
    /\ (stop_pc # "idle") ~> (stop_pc = "idle")

(***************************************************************************)
(* Durable invocations (olive/temporal/worker.py, workflows.py)            *)
(***************************************************************************)
MaxInvocations == 2

DurableTools == {"t", "u"}

\* the timeout_seconds and retry_policy a caller passes; 300 is also the
\* value an omitted timeout_seconds takes
DurableSettings ==
    {[timeout_seconds |-> DefaultTimeoutSeconds, retry_policy |-> PyNone],
     [timeout_seconds |-> DefaultTimeoutSeconds, retry_policy |-> [initial_interval |-> 2]],
     [timeout_seconds |-> 600, retry_policy |-> [max_attempts |-> 5]],
     [timeout_seconds |-> 600,
      retry_policy |-> [max_attempts |-> 5, initial_interval |-> 2, maximum_interval |-> 30]]}

Uuid4Repeating(drawn) == [type |-> "UUID", n |-> 1]

\* uuid4(): a value no earlier call has returned
Uuid4(drawn) == [type |-> "UUID", n |-> drawn + 1]

\* f"olive-tool-{tool_name}-{uuid4()}"
WorkflowId(tool_name, suffix) == Fmt("olive-tool-{}-{}", <<Str(tool_name), suffix>>)

OliveToolInputDefaults(tool_name, arguments, timeout_seconds, retry_policy) ==
    [tool_name |-> tool_name, arguments |-> arguments,
     timeout_seconds |-> DefaultTimeoutSeconds, retry_policy |-> EmptyDict]

\* OliveToolInput(tool_name=..., arguments=..., timeout_seconds=..., retry_policy=retry_policy or {})
OliveToolInput(tool_name, arguments, timeout_seconds, retry_policy) ==
    [tool_name |-> tool_name, arguments |-> arguments, timeout_seconds |-> timeout_seconds,
     retry_policy |-> IF Truthy(retry_policy) THEN retry_policy ELSE EmptyDict]

\* dict.get(key, default)
DictGetOr(d, key, default) == IF key \in DOMAIN d THEN d[key] ELSE default

\* timedelta(seconds=n)
Timedelta(n) == [type |-> "timedelta", seconds |-> n]

\* OliveToolWorkflow.run: the execute_activity call it makes for its input
ActivityCall(input) ==
    LET rp_config == IF Truthy(input.retry_policy) THEN input.retry_policy ELSE EmptyDict
    IN  [activity |-> input.tool_name,
         arguments |-> input.arguments,
         start_to_close_timeout |-> Timedelta(input.timeout_seconds),
         retry_policy |->
             [maximum_attempts |-> DictGetOr(rp_config, "max_attempts", 3),
              initial_interval |-> Timedelta(DictGetOr(rp_config, "initial_interval", 1)),
              maximum_interval |-> Timedelta(DictGetOr(rp_config, "maximum_interval", 10))]]

notDurableVars ==
    <<regVars, callVars, declared, clientVars, config, wthreads, worker_thread, async_stop_event,
      stop_requested, starts, stop_calls, stop_pc, joined, appVars, schemaVars, activities, calls>>

DurableOutputs == {Val("str", "out"), PyNone}

\* execute_tool / start_tool up to the submission of the workflow: an
\* exception of _get_client leaves the method before anything is built;
\* start_tool returns handle.id at once, execute_tool awaits the workflow
Submit(method, tool_name, arguments, setting) ==
    \E outcome \in GetClientOutcomes(wclient, config) :
        LET given == [tool_name |-> tool_name, arguments |-> arguments,
                      timeout_seconds |-> setting.timeout_seconds,
                      retry_policy |-> setting.retry_policy]
            id == WorkflowId(tool_name, Uuid4(uuids))
        IN  IF GotClient(outcome)
            THEN /\ wclient' = ClientObj
                 /\ uuids' = uuids + 1
                 /\ invocations' = Append(invocations,
                        [method |-> method, given |-> given,
                         pc |-> IF method = "start_tool" THEN "returned" ELSE "waiting",
                         id |-> id,
                         input |-> OliveToolInput(tool_name, arguments, setting.timeout_seconds,
                                                  setting.retry_policy),
                         wf |-> "started", activity |-> PyNone,
                         value |-> IF method = "start_tool" THEN id ELSE PyNone])
            ELSE /\ invocations' = Append(invocations,
                        [method |-> method, given |-> given, pc |-> "raised", id |-> PyNone,
                         input |-> PyNone, wf |-> "none", activity |-> PyNone, value |-> PyNone])
                 /\ UNCHANGED <<wclient, uuids>>

\* await worker.execute_tool(tool_name, arguments, timeout_seconds=..., retry_policy=...)
ExecuteTool ==
    /\ Len(invocations) < MaxInvocations
    /\ \E tool_name \in DurableTools, setting \in DurableSettings :
          Submit("execute_tool", tool_name, EmptyDict, setting)
    /\ UNCHANGED notDurableVars

\* await worker.start_tool(tool_name, arguments, timeout_seconds=..., retry_policy=...)
StartTool ==
    /\ Len(invocations) < MaxInvocations
    /\ \E tool_name \in DurableTools, setting \in DurableSettings :
          Submit("start_tool", tool_name, EmptyDict, setting)
    /\ UNCHANGED notDurableVars

\* the engine runs OliveToolWorkflow.run on the submitted input
WorkflowRuns(i) ==
    /\ invocations[i].wf = "started"
    /\ invocations' = [invocations EXCEPT ![i].wf = "running",
                                          ![i].activity = ActivityCall(invocations[i].input)]
    /\ UNCHANGED <<wclient, uuids>>
    /\ UNCHANGED notDurableVars

\* the workflow ends with the activity's result or fails; an execute_tool
\* call awaiting it returns the result or raises
WorkflowEnds(i) ==
    /\ invocations[i].wf = "running"
    /\ \/ \E v \in DurableOutputs :
             invocations' = [invocations EXCEPT
                 ![i].wf = "completed",
                 ![i].pc = IF @ = "waiting" THEN "returned" ELSE @,
                 ![i].value = IF invocations[i].pc = "waiting" THEN v ELSE @]
       \/ invocations' = [invocations EXCEPT
                 ![i].wf = "failed",
                 ![i].pc = IF @ = "waiting" THEN "raised" ELSE @]
    /\ UNCHANGED <<wclient, uuids>>
    /\ UNCHANGED notDurableVars

NextDurable ==
    \/ ExecuteTool
    \/ StartTool
    \/ \E i \in 1..Len(invocations) : WorkflowRuns(i)
    \/ \E i \in 1..Len(invocations) : WorkflowEnds(i)

InitDurable == InitWorker

SpecDurable == InitDurable /\ [][NextDurable]_vars

(***************************************************************************)
(* Durable invocation claims                                               *)
(***************************************************************************)
Submitted == {i \in 1..Len(invocations) : invocations[i].wf # "none"}

\* C14: the workflows submitted by any two execute_tool / start_tool calls
\* have different ids, and every id is "olive-tool-", the tool's name, "-" and
\* a uuid.
C14_DistinctWorkflowIds ==
    \A i \in Submitted :
        /\ invocations[i].id.s = "olive-tool-{}-{}"
        /\ invocations[i].id.parts[1] = Str(invocations[i].given.tool_name)
        /\ invocations[i].id.parts[2].type = "UUID"
        /\ \A j \in Submitted : i # j => invocations[i].id # invocations[j].id

C14_Witness ==
    \E i, j \in Submitted :
        /\ i # j
        /\ invocations[i].given.tool_name = invocations[j].given.tool_name
        /\ invocations[i].method = "execute_tool"
        /\ invocations[i].pc = "waiting"
        /\ invocations[j].method = "start_tool"

\* the value a retry policy gives a field, or the field's default
Expected(policy, field) ==
    IF policy # PyNone /\ field.key \in DOMAIN policy THEN policy[field.key] ELSE field.default

\* C19: the workflow input carries the timeout and the retry policy the caller
\* passed, and the workflow runs the activity named after the tool with that
\* timeout as start-to-close timeout and with the policy's maximum attempts,
\* initial interval and maximum interval, 3, 1s and 10s where the policy has
\* no such field.
C19_TimeoutAndRetryForwarded ==
    \A i \in Submitted :
        LET inv == invocations[i]
        IN  /\ inv.input.timeout_seconds = inv.given.timeout_seconds
            /\ inv.given.retry_policy # PyNone => inv.input.retry_policy = inv.given.retry_policy
            /\ inv.activity # PyNone =>
                   /\ inv.activity.activity = inv.given.tool_name
                   /\ inv.activity.start_to_close_timeout.seconds = inv.given.timeout_seconds
                   /\ inv.activity.retry_policy.maximum_attempts =
                          Expected(inv.given.retry_policy, [key |-> "max_attempts", default |-> 3])
                   /\ inv.activity.retry_policy.initial_interval.seconds =
                          Expected(inv.given.retry_policy, [key |-> "initial_interval", default |-> 1])
                   /\ inv.activity.retry_policy.maximum_interval.seconds =
                          Expected(inv.given.retry_policy, [key |-> "maximum_interval", default |-> 10])

C19_Witness ==
    \E i \in Submitted :
        /\ invocations[i].given.timeout_seconds = 600
        /\ invocations[i].given.retry_policy = [max_attempts |-> 5]
        /\ invocations[i].activity # PyNone
        /\ invocations[i].activity.retry_policy.maximum_attempts = 5
        /\ invocations[i].activity.retry_policy.maximum_interval = Timedelta(10)

(***************************************************************************)
(* Application lifespan (olive/server/app.py)                              *)
(***************************************************************************)
CheckConnectionTrue(outcome) == TRUE

\* check_connection: True when _get_client returned, False when it raised
CheckConnection(outcome) == GotClient(outcome)

RuntimeError(text) == Exc("RuntimeError", Str(text))

\* no request is being served
Quiet == cpc \in {"idle", "responded", "escaped"}

\* what the startup leaves alone whatever branch it takes
startupFrame ==
    <<regVars, cpc, req, tool_info, final_args, raised, response, timerFired, invoked, submitted,
      bg, callEnd, declared, clientVars, durableVars, config, async_stop_event, stop_calls, stop_pc,
      joined, schemaVars, activities, calls>>

\* lifespan up to its yield: read config.temporal.enabled; if it is set,
\* import the worker class, check the connection and either start the worker
\* and store it, or raise; if it is not set, store None
LifespanStartup ==
    /\ startup = "init"
    /\ IF ~HasAttr(config.temporal, "enabled")
       THEN /\ startup' = "failed"
            /\ startupError' = AttributeError("TemporalConfig", "enabled")
            /\ UNCHANGED <<connection, wclient, wthreads, worker_thread, stop_requested, starts,
                           appWorker, fallbackWorker>>
       ELSE IF config.temporal.enabled
       THEN \/ /\ startup' = "failed"
               /\ startupError' = RuntimeError("temporalio not installed")
               /\ UNCHANGED <<connection, wclient, wthreads, worker_thread, stop_requested,
                              starts, appWorker, fallbackWorker>>
            \/ \E outcome \in GetClientOutcomes(wclient, config) :
                  /\ wclient' = IF GotClient(outcome) THEN ClientObj ELSE wclient
                  /\ connection' = IF GotClient(outcome) THEN "ok" ELSE "failed"
                  /\ IF CheckConnection(outcome)
                     THEN /\ starts' = starts + 1
                          /\ IF ShouldStart(worker_thread, wthreads)
                             THEN /\ stop_requested' = FALSE
                                  /\ wthreads' = Append(wthreads, [pc |-> "connecting"])
                                  /\ worker_thread' = Len(wthreads) + 1
                             ELSE UNCHANGED <<stop_requested, wthreads, worker_thread>>
                          /\ appWorker' = WorkerObj
                          /\ fallbackWorker' = WorkerObj
                          /\ startup' = "serving"
                          /\ startupError' = NoExc
                     ELSE /\ startup' = "failed"
                          /\ startupError' = RuntimeError("server not reachable")
                          /\ UNCHANGED <<wthreads, worker_thread, stop_requested, starts,
                                         appWorker, fallbackWorker>>
       ELSE /\ appWorker' = PyNone
            /\ fallbackWorker' = PyNone
            /\ startup' = "serving"
            /\ UNCHANGED <<startupError, connection, wclient, wthreads, worker_thread,
                           stop_requested, starts>>
    /\ UNCHANGED startupFrame

\* lifespan after its yield: worker = getattr(app.state, "temporal_worker", None);
\* if worker: worker.stop() (its first statement here), else nothing
ShutdownBegins ==
    /\ startup = "serving"
    /\ Quiet
    /\ IF appWorker # PyNone
       THEN /\ startup' = "stopping"
            /\ stop_calls' = stop_calls + 1
            /\ stop_requested' = TRUE
            /\ stop_pc' = "flagged"
            /\ joined' = NoJoin
       ELSE /\ startup' = "stopped"
            /\ UNCHANGED <<stop_calls, stop_requested, stop_pc, joined>>
    /\ UNCHANGED <<regVars, callVars, declared, clientVars, durableVars, config, wclient,
                   wthreads, worker_thread, async_stop_event, starts, startupError, connection,
                   schemaVars, activities, calls>>

\* lifespan once worker.stop() has returned:
\* app.state.temporal_worker = None; set_temporal_worker(None)
ShutdownEnds ==
    /\ startup = "stopping"
    /\ stop_pc = "idle"
    /\ appWorker' = PyNone
    /\ fallbackWorker' = PyNone
    /\ startup' = "stopped"
    /\ UNCHANGED <<regVars, cpc, req, tool_info, final_args, raised, response, timerFired,
                   invoked, submitted, bg, callEnd, declared, clientVars, durableVars,
                   workerVars, startupError, connection, schemaVars, activities, calls>>

\* the decorators run when the application's modules are imported
ImportTool == startup = "init" /\ OliveTool

\* requests arrive only between a completed startup and the shutdown
ServeRequest == startup = "serving" /\ CallTool

NextApp ==
    \/ ImportTool
    \/ LifespanStartup
    \/ ServeRequest
    \/ CallableReturns
    \/ CallableRaises
    \/ TimerFires
    \/ BackgroundFinishes
    \/ \E i \in 1..Len(wthreads) : ThreadConnects(i)
    \/ \E i \in 1..Len(wthreads) : ThreadSetsUp(i)
    \/ \E i \in 1..Len(wthreads) : ThreadLeaves(i)
    \/ ShutdownBegins
    \/ StopSignals
    \/ StopJoins
    \/ ShutdownEnds

InitApp ==
    /\ InitRegistryVars
    /\ InitCallVars
    /\ \E cfg \in Configs : InitExtWith(cfg)

SpecApp == InitApp /\ [][NextApp]_vars

(***************************************************************************)
(* Startup claims                                                          *)
(***************************************************************************)
DurableEnabled == HasAttr(config.temporal, "enabled") /\ config.temporal.enabled

\* C17: when durable mode is enabled as mandatory and the startup's connection
\* check fails, the startup ends with an error, no worker thread exists, no
\* worker is stored for the dispatcher and no request is ever served.
C17_FailedConnectionFailsStartup ==
    (DurableEnabled /\ config.temporal.mandatory /\ connection = "failed") =>
        /\ startup = "failed"
        /\ startupError.cls = "RuntimeError"
        /\ wthreads = <<>>
        /\ appWorker = PyNone
        /\ fallbackWorker = PyNone
        /\ cpc = "idle"
        /\ invoked = 0
        /\ submitted = 0

C17_Witness ==
    /\ DurableEnabled
    /\ config.temporal.mandatory
    /\ connection = "failed"
    /\ startup = "failed"
    /\ tools # <<>>

\* C18: when durable mode is enabled as best-effort and the startup's
\* connection check fails, the application starts without a worker and every
\* call is executed directly, no workflow being submitted.
C18_BestEffortStartsDirect ==
    (DurableEnabled /\ ~config.temporal.mandatory /\ connection = "failed") =>
        /\ startup \in {"serving", "stopped"}
        /\ appWorker = PyNone
        /\ fallbackWorker = PyNone
        /\ submitted = 0

(***************************************************************************)
(* Schema derivation (olive/schemas.py)                                    *)
(***************************************************************************)
MaxParams == 2

\* a type as get_type_hints returns it: a plain class, or an alias with an origin and arguments
Plain(k) == [k |-> k]

Alias(origin, args) == [origin |-> origin, args |-> args]

NoneType == Plain("NoneType")

\* typing.Any, also what hints.get(name, Any) gives for a name without a hint
TypingAny == Plain("Any")

\* X | None, Optional[X]
Optional(t) == Alias("Union", <<t, NoneType>>)

\* Inject(key=..., required=...)
Inject(kwargs) == [type |-> "Inject"] @@ Model([key |-> "", required |-> TRUE], kwargs)

\* a class deriving from pydantic.BaseModel
ItemModel == [k |-> "class", name |-> "Item", basemodel |-> TRUE]

\* inspect.Parameter.empty
Empty == [type |-> "_empty"]

Unannotated == [type |-> "unannotated"]

ParamHints ==
    {Plain("str"), Plain("int"), Plain("dict"),
     Optional(Plain("str")), Optional(Plain("dict")),
     Alias("Union", <<Plain("int"), Plain("str")>>),
     Alias("Union", <<Plain("int"), Plain("str"), NoneType>>),
     Alias("list", <<Plain("str")>>),
     Alias("Annotated", <<Plain("str"), Inject([key |-> "k1"])>>),
     Unannotated}

ParamDefaults == {Empty, PyNone, Val("str", "Hello")}

ReturnHints == {Plain("dict"), Alias("dict", <<Plain("str"), Optional(Plain("int"))>>),
                Alias("tuple", <<Plain("int"), ItemModel>>), Unannotated}

ParamNames == <<"w", "x", "y", "z">>

\* the functions handed to the derivation: a method or not, the hint and
\* the default of each parameter in signature order, the return hint
SchemaFuncs ==
    [method : BOOLEAN,
     params : UNION {[1..n -> [hint : ParamHints, default : ParamDefaults]] : n \in 0..MaxParams},
     return : ReturnHints]

\* inspect.signature(func).parameters, with what get_type_hints has for each name
Parameters(f) ==
    (IF f.method THEN <<[name |-> "self", hint |-> Unannotated, default |-> Empty]>> ELSE <<>>)
    \o [i \in 1..Len(f.params) |->
           [name |-> ParamNames[i], hint |-> f.params[i].hint, default |-> f.params[i].default]]

\* hints.get(name, Any)
HintsGet(hint) == IF hint = Unannotated THEN TypingAny ELSE hint

IsAlias(t) == "origin" \in DOMAIN t

\* d[key] = value
DictPut(d, key, value) == (key :> value) @@ d

BasicTypes ==
    [str |-> "string", int |-> "integer", float |-> "number", bool |-> "boolean",
     list |-> "array", tuple |-> "array", set |-> "array", dict |-> "object", NoneType |-> "null"]

RECURSIVE python_type_to_json_schema(_)
python_type_to_json_schema(py_type) ==
    IF ~IsAlias(py_type)
    THEN CASE py_type.k \in DOMAIN BasicTypes -> [type |-> BasicTypes[py_type.k]]
           [] py_type.k = "Any" -> EmptyDict
           [] py_type.k = "class" /\ py_type.basemodel ->
                  ("$ref" :> Fmt("#/definitions/{}", <<Str(py_type.name)>>))
           [] OTHER -> [type |-> "object"]
    ELSE LET args == py_type.args
             Each == [i \in 1..Len(args) |-> python_type_to_json_schema(args[i])]
         IN  CASE py_type.origin \in {"list", "set"} ->
                      IF args # <<>> THEN [type |-> "array", items |-> Each[1]]
                                     ELSE [type |-> "array"]
               [] py_type.origin = "tuple" ->
                      IF args # <<>> THEN [type |-> "array", items |-> Each]
                                     ELSE [type |-> "array"]
               [] py_type.origin = "dict" ->
                      IF Len(args) > 1 THEN [type |-> "object", additionalProperties |-> Each[2]]
                                       ELSE [type |-> "object"]
               [] py_type.origin = "Union" ->
                      IF Len(args) = 2 /\ \E i \in 1..2 : args[i] = NoneType
                      THEN LET non_none == CHOOSE i \in 1..2 :
                                               /\ args[i] # NoneType
                                               /\ \A j \in 1..(i - 1) : args[j] = NoneType
                           IN  DictPut(Each[non_none], "nullable", TRUE)
                      ELSE [anyOf |-> Each]
               [] OTHER -> [type |-> "object"]

\* _parse_inject_annotation: the base type and the Inject marker of
\* Annotated[base, ..., Inject(...), ...], or the type itself and None
InjectOf(py_type) ==
    IF IsAlias(py_type) /\ py_type.origin = "Annotated" /\ py_type.args # <<>>
    THEN LET meta == Tail(py_type.args)
             marks == {i \in 1..Len(meta) : "type" \in DOMAIN meta[i] /\ meta[i].type = "Inject"}
         IN  IF marks = {} THEN PyNone
             ELSE meta[CHOOSE i \in marks : \A j \in marks : i <= j]
    ELSE PyNone

BaseType(py_type) == IF InjectOf(py_type) # PyNone THEN Head(py_type.args) ELSE py_type

\* the parameters the loop puts in the input schema: not self, not injected
InSchema(param) == param.name # "self" /\ InjectOf(HintsGet(param.hint)) = PyNone

HasDefaultNever(param) == FALSE

\* not (param.default == inspect.Parameter.empty)
HasDefault(param) == param.default # Empty

\* properties[param_name]: the type's schema, with the default when it is not None
SchemaNode(param) ==
    LET json_type == python_type_to_json_schema(BaseType(HintsGet(param.hint)))
    IN  IF HasDefault(param) /\ param.default # PyNone
        THEN DictPut(json_type, "default", param.default)
        ELSE json_type

NamesOf(params) == [i \in 1..Len(params) |-> params[i].name]

\* extract_schema_from_function(func): (input_schema, output_schema, injections)
extract_schema_from_function(f) ==
    LET params == SelectSeq(Parameters(f), InSchema)
        IsRequired(param) == ~HasDefault(param)
        IsInjected(param) == param.name # "self" /\ InjectOf(HintsGet(param.hint)) # PyNone
        injected == SelectSeq(Parameters(f), IsInjected)
    IN  [input_schema |->
            [type |-> "object",
             properties |-> [n \in {params[i].name : i \in 1..Len(params)} |->
                                SchemaNode(CHOOSE p \in {params[i] : i \in 1..Len(params)} :
                                               p.name = n)],
             required |-> NamesOf(SelectSeq(params, IsRequired))],
         output_schema |-> python_type_to_json_schema(HintsGet(f.return)),
         injections |->
            [i \in 1..Len(injected) |->
                LET m == InjectOf(HintsGet(injected[i].hint))
                IN  [ToolInjection([config_key |-> m.key, required |-> m.required])
                        EXCEPT !.param = injected[i].name]]]

\* a function is defined and handed to the derivation
DefineFunction ==
    /\ func = PyNone
    /\ \E f \in SchemaFuncs : func' = f
    /\ UNCHANGED <<regVars, callVars, declared, clientVars, workerVars, durableVars, appVars,
                   extracted, activities, calls>>

\* the derivation returns
ExtractSchema ==
    /\ func # PyNone
    /\ extracted = PyNone
    /\ extracted' = extract_schema_from_function(func)
    /\ UNCHANGED <<regVars, callVars, declared, clientVars, workerVars, durableVars, appVars,
                   func, activities, calls>>

NextSchema ==
    \/ DefineFunction
    \/ ExtractSchema

InitSchema == InitRegistryVars /\ InitCallVars /\ InitExtVars

SpecSchema == InitSchema /\ [][NextSchema]_vars

(***************************************************************************)
(* Claims on the schema derivation                                         *)
(***************************************************************************)
\* the positions of the derived function's parameters declared str | None
OptionalStrings ==
    {i \in 1..Len(func.params) : func.params[i].hint = Optional(Plain("str"))}

Required(i) ==
    \E j \in 1..Len(extracted.input_schema.required) :
        extracted.input_schema.required[j] = ParamNames[i]

NullableString == [type |-> "string", nullable |-> TRUE]

\* C20, as stated: a parameter declared str | None with no default gets the
\* schema node {type: string, nullable: true} and its name is not in the
\* input schema's required list
C20_OptionalWithoutDefaultNotRequired ==
    extracted # PyNone =>
        \A i \in OptionalStrings :
            func.params[i].default = Empty =>
                /\ extracted.input_schema.properties[ParamNames[i]] = NullableString
                /\ ~Required(i)

\* C20, amended: a parameter declared str | None gets the schema node
\* {type: string, nullable: true}, with its default added when that is not
\* None, and its name is in the required list exactly when it has no
\* default: without a default it is required, with a default of None it is not
C20_OptionalRequiredIffNoDefault ==
    extracted # PyNone =>
        \A i \in OptionalStrings :
            /\ extracted.input_schema.properties[ParamNames[i]] =
                   IF func.params[i].default \in {Empty, PyNone}
                   THEN NullableString
                   ELSE [type |-> "string", nullable |-> TRUE, default |-> func.params[i].default]
            /\ Required(i) <=> func.params[i].default = Empty

\* a derivation has returned for a function with one str | None parameter
\* without a default and another with a default of None
C20_Witness ==
    /\ extracted # PyNone
    /\ \E i, j \in OptionalStrings :
          /\ func.params[i].default = Empty
          /\ func.params[j].default = PyNone

(***************************************************************************)
(* call_tool's registry lookup next to threads using the registry          *)
(* (olive/router.py, olive/registry.py)                                    *)
(***************************************************************************)
MaxLockThreads == 2

\* the threads that call registry methods while the request is served: the
\* executor thread running a tool's callable, other requests' lookups
LockThreads == 1..MaxLockThreads

\* the event loop thread, which runs call_tool
LoopThread == NumThreads + 1

LookupRequests == {r \in Requests : r.arguments = EmptyDict /\ r.context = PyNone}

ReleasedNever(holder) == holder

\* leaving the with self._lock: block
Released(holder) == NoThread

\* call_tool's tool_info = _registry.get(...): with self._lock: (entry)
LookupAcquire ==
    /\ cpc = "idle"
    /\ LockFree
    /\ \E r \in LookupRequests : req' = r
    /\ lock' = LoopThread
    /\ cpc' = "lookup"
    /\ UNCHANGED <<tools, tpc, top, tres, snap>>
    /\ UNCHANGED <<appWorker, fallbackWorker, tool_info, final_args, raised, response, timerFired,
                   invoked, submitted, bg, callEnd>>
    /\ UNCHANGED extVars

\* return self._tools.get(name), the lock is released, and call_tool runs on
\* to its first await or its return
LookupBody ==
    /\ cpc = "lookup"
    /\ lock' = Released(lock)
    /\ LET out == Dispatch(req, tools, Or(appWorker, fallbackWorker))
       IN  /\ tool_info' = DictGet(tools, req.tool_name)
           /\ cpc' = out.cpc
           /\ response' = out.response
           /\ raised' = out.raised
           /\ final_args' = out.final_args
           /\ invoked' = IF out.cpc = "running" THEN invoked + 1 ELSE invoked
           /\ submitted' = IF out.cpc \in {"start_tool", "execute_tool"}
                           THEN submitted + 1 ELSE submitted
    /\ UNCHANGED <<tools, tpc, top, tres, snap>>
    /\ UNCHANGED <<appWorker, fallbackWorker, req, timerFired, bg, callEnd>>
    /\ UNCHANGED extVars

NextLocking ==
    \/ \E t \in LockThreads :
          \/ RegCall(t)
          \/ Acquire(t)
          \/ RegisterCheck(t)
          \/ RegisterRaise(t)
          \/ RegisterInsert(t)
          \/ GetBody(t)
          \/ ListAllBody(t)
          \/ ClearBody(t)
    \/ LookupAcquire
    \/ LookupBody
    \/ CallableReturns
    \/ CallableRaises
    \/ TimerFires
    \/ BackgroundFinishes

\* the modules are imported: one tool without injected parameters is
\* registered, and a durable worker may have been set
InitLocking ==
    /\ \E f \in {g \in Funcs : g.injects = <<>>} : tools = <<DecoratedToolInfo(f, FALSE)>>
    /\ lock = NoThread
    /\ tpc = [t \in Threads |-> "idle"]
    /\ top = [t \in Threads |-> NoOp]
    /\ tres = [t \in Threads |-> "none"]
    /\ snap = [t \in Threads |-> NoSnap]
    /\ appWorker = PyNone
    /\ fallbackWorker \in {PyNone, WorkerObj}
    /\ cpc = "idle"
    /\ req = NoReq
    /\ tool_info = PyNone
    /\ final_args = EmptyDict
    /\ raised = NoExc
    /\ response = NoResponse
    /\ timerFired = FALSE
    /\ invoked = 0
    /\ submitted = 0
    /\ bg = "none"
    /\ callEnd = NoEnd
    /\ InitExtVars

SpecLocking == InitLocking /\ [][NextLocking]_vars

\* the callable is executing, in the request or in the executor thread after
\* a timeout, or a call to the workflow engine is in flight
ToolCallInFlight == cpc \in {"running", "start_tool", "execute_tool"} \/ bg = "running"

InCriticalSection(t) == tpc[t] \in {"check", "raise", "insert", "body"}

\* C25: the request holds the registry lock only inside its lookup; while a
\* tool's callable is executing or a workflow engine call is in flight the
\* request does not hold it, so whoever holds it then is a thread inside
\* one registry method, which leaves it with its next statement: a callable
\* that calls register, get, list_all or clear is not blocked by its own
\* request, nor are other requests' lookups.
C25_LockNotHeldAcrossToolCall ==
    /\ lock = LoopThread => cpc = "lookup"
    /\ ToolCallInFlight =>
           /\ lock # LoopThread
           /\ lock # NoThread => lock \in LockThreads /\ InCriticalSection(lock)

\* the callable is executing while one thread has finished a register call
\* and another holds the lock inside a registry method
C25_Witness ==
    /\ cpc = "running"
    /\ \E t, u \in LockThreads :
          /\ tpc[t] = "done" /\ tres[t] = "ok"
          /\ lock = u /\ InCriticalSection(u)

(***************************************************************************)
(* Tools registered next to a starting durable worker                      *)
(* (olive/registry.py, olive/temporal/worker.py)                           *)
(***************************************************************************)
\* threads register tools and look tools up, as call_tool does, while the
\* worker is started and its threads connect and build their Worker
NextActivities ==
    \/ \E t \in LockThreads :
          \/ RegCall(t)
          \/ Acquire(t)
          \/ RegisterCheck(t)
          \/ RegisterRaise(t)
          \/ RegisterInsert(t)
          \/ GetBody(t)
          \/ ListAllBody(t)
          \/ ClearBody(t)
    \/ StartBackground
    \/ \E i \in 1..Len(wthreads) :
          \/ ThreadConnects(i)
          \/ ThreadSetsUp(i)

InitActivities == InitWorker

SpecActivities == InitActivities /\ [][NextActivities]_vars

\* the threads whose Worker is running
RunningWorkers == {i \in 1..Len(wthreads) : wthreads[i].pc = "waiting"}

HasActivity(i, name) == \E a \in activities : a.thread = i /\ name \in a.names

\* C27, as stated: whenever a worker is running, a tool that a lookup finds
\* in the registry has an activity of its name on that worker, also when the
\* tool was registered after the worker started.
C27_FoundToolHasActivity ==
    \A t \in Threads, i \in RunningWorkers :
        (top[t].kind = "get" /\ tres[t] = "found") => HasActivity(i, top[t].name)

(***************************************************************************)
(* Direct calls of blocking tools on the loop's default executor           *)
(* (olive/router.py)                                                       *)
(***************************************************************************)
\* threads of the executor run_in_executor(None, ...) uses
MaxWorkers == 2

MaxCalls == 4

notPoolVars ==
    <<regVars, callVars, declared, clientVars, workerVars, durableVars, appVars, schemaVars,
      activities>>

Busy(cs) == Cardinality({c \in 1..Len(cs) : cs[c].work \in {"running", "background"}})

\* ThreadPoolExecutor.submit: the work item runs at once if a thread is free, else it waits in the queue
SubmitWork(cs) == IF Busy(cs) < MaxWorkers THEN "running" ELSE "queued"

\* a thread that has finished its work item takes the oldest one still queued
TakeNext(cs) ==
    LET queued == {c \in 1..Len(cs) : cs[c].work = "queued"}
    IN  IF queued = {} THEN cs
        ELSE [cs EXCEPT ![CHOOSE c \in queued : \A d \in queued : c <= d].work = "running"]

\* result = await asyncio.wait_for(loop.run_in_executor(None, lambda: func(**final_args)), timeout):
\* the work item is submitted and the deadline starts; the callable is one
\* that returns within the tool's timeout once it runs (quick), or one that does not
PoolCall ==
    /\ Len(calls) < MaxCalls
    /\ \E quick \in BOOLEAN :
          calls' = Append(calls, [quick |-> quick, work |-> SubmitWork(calls), answer |-> "none"])
    /\ UNCHANGED notPoolVars

\* the callable returns while its caller awaits it: ToolCallResponse(success=True, result=result)
PoolCallableReturns(c) ==
    /\ calls[c].work = "running"
    /\ calls[c].answer = "none"
    /\ calls' = TakeNext([calls EXCEPT ![c].work = "finished", ![c].answer = "success"])
    /\ UNCHANGED notPoolVars

\* the deadline expires before the callable has returned, which a running
\* quick callable does not let happen: the awaited future is cancelled and
\* the timeout response returned; a queued work item is dropped, a running
\* one keeps its thread
PoolTimerFires(c) ==
    /\ calls[c].answer = "none"
    /\ calls[c].work = "queued" \/ (calls[c].work = "running" /\ ~calls[c].quick)
    /\ calls' = [calls EXCEPT ![c].answer = "timeout",
                              ![c].work = IF @ = "queued" THEN "dropped" ELSE "background"]
    /\ UNCHANGED notPoolVars

\* a callable whose caller has timed out ends and frees its thread
PoolBackgroundFinishes(c) ==
    /\ calls[c].work = "background"
    /\ calls' = TakeNext([calls EXCEPT ![c].work = "finished"])
    /\ UNCHANGED notPoolVars

NextPool ==
    \/ PoolCall
    \/ \E c \in 1..Len(calls) :
          \/ PoolCallableReturns(c)
          \/ PoolTimerFires(c)
          \/ PoolBackgroundFinishes(c)

InitPool == InitRegistryVars /\ InitCallVars /\ InitExtVars

SpecPool == InitPool /\ [][NextPool]_vars

\* C28, as stated: a call of a blocking tool whose callable returns within
\* the tool's timeout is answered with success, however many earlier calls
\* have timed out and still occupy the executor's threads.
C28_QuickCallSucceeds ==
    \A c \in 1..Len(calls) :
        (calls[c].quick /\ calls[c].answer # "none") => calls[c].answer = "success"
====
